---- MODULE Spec2Model ----
(***************************************************************************)
(* Model of stack_queue.cpp (Stack<T>, Queue<T>) and of the sorting and    *)
(* searching routines of sorting_searching.java.                           *)
(*                                                                         *)
(* The three components share no state (every field is private to its      *)
(* object, every routine works on the array it is handed), so a behaviour  *)
(* exercises one of them: `focus` names the component under exercise.      *)
(***************************************************************************)
EXTENDS Integers, Sequences, FiniteSets

\* ------------------------------------------------------------------------
\* Bounds of the model
\* ------------------------------------------------------------------------
MaxValue == 2        \* element values are 1..MaxValue
MaxInitCap == 3      \* Stack(size) is called with size in -1..MaxInitCap
MaxPushes == 3       \* pushes per stack
MaxNodes == 4        \* nodes allocated per queue
MaxLen == 4          \* length of the arrays sorted and searched
MaxKey == 3          \* array elements are 1..MaxKey
StepMaxLen == 4      \* length of the arrays of the statement-level runs

Values == 1 .. MaxValue
InitSizes == (-1) .. MaxInitCap

\* An element of `new T[n]` that has never been assigned (indeterminate).
Uninit == 0

VARIABLES
    focus,      \* component exercised by this behaviour
    \* ---- Stack<T> fields
    arr,        \* the buffer: a function on 0..capacity-1
    topIndex,   \* index of the top element, -1 if empty
    capacity,   \* allocated length of arr
    \* ---- Stack<T> caller's view
    sState,     \* "none" | "live" | "failed" (constructor threw) | "crashed"
    sOp,        \* last member function called
    sRet,       \* <<v>> if the last call returned v, << >> otherwise
    sErr,       \* what() of the exception of the last call, "none" if none
    \* ---- Stack<T> history
    sInitCap,   \* argument of the constructor
    sPushLog,   \* values pushed, in call order
    sPopLog,    \* values returned by pop, in call order
    sPhase,     \* "pushing" | "popping" | "mixed": shape of the call sequence
    sModel,     \* the abstract sequence: pushed and not yet popped
    sGrowths,   \* number of calls of resize()
    sOOB,       \* an access outside the allocated buffer has happened
    \* ---- the heap of Node<T> objects and the Queue<T> fields
    heap,       \* heap[p]: the node at address p, in allocation order
    frontPtr,   \* address of the front node, nullptr if none
    rearPtr,    \* address of the rear node, nullptr if none
    count,      \* number of elements
    \* ---- Queue<T> caller's view
    qState,     \* "none" | "live" | "destroyed" | "crashed"
    qOp,        \* last member function called
    qRet,       \* <<v>> if the last call returned v, << >> otherwise
    qErr,       \* what() of the exception of the last call, "none" if none
    \* ---- Queue<T> history
    qEnqLog,    \* values enqueued, in call order
    qDeqLog,    \* values returned by dequeue, in call order
    qPhase,     \* "enqueueing" | "dequeueing" | "mixed"
    qModel,     \* the abstract sequence: enqueued and not yet dequeued
    qFreeLog,   \* addresses passed to delete, in order
    qBadDeref,  \* a null or deleted node has been dereferenced
    \* ---- sorting and searching
    input,      \* the array handed to the routine, as it was at the call
    target,     \* the value searched for
    aOp,        \* the routine called, "none" before the call
    data,       \* the array, as the routine leaves it
    found,      \* <<i>> if a search returned i, << >> otherwise
    frames      \* call stack of a routine run statement by statement

stackVars == <<arr, topIndex, capacity, sState, sOp, sRet, sErr,
               sInitCap, sPushLog, sPopLog, sPhase, sModel, sGrowths, sOOB>>
stackFields == <<arr, topIndex, capacity>>
stackHist == <<sInitCap, sPushLog, sPopLog, sPhase, sModel, sGrowths>>

queueFields == <<heap, frontPtr, rearPtr, count, qFreeLog>>
queueHist == <<qEnqLog, qDeqLog, qPhase, qModel>>
queueVars == <<queueFields, queueHist, qState, qOp, qRet, qErr, qBadDeref>>

algoVars == <<input, target, aOp, data, found, frames>>

vars == <<focus, stackVars, queueVars, algoVars>>

\* ------------------------------------------------------------------------
\* Helpers
\* ------------------------------------------------------------------------
RECURSIVE Reverse(_)
Reverse(s) == IF s = << >> THEN << >> ELSE Append(Reverse(Tail(s)), Head(s))

Front(s) == SubSeq(s, 1, Len(s) - 1)

\* ------------------------------------------------------------------------
\* Stack<T>
\* ------------------------------------------------------------------------
StackPopUnderflow == "Stack Underflow: Cannot pop from empty stack"
StackPeekUnderflow == "Stack is empty: Cannot peek"
BadArrayNewLength == "std::bad_array_new_length"

\* Mutant: the empty test compares against 0, the first index, not -1.
Stack_isEmpty_firstIndex(t) == t = 0

Stack_isEmpty(t) == t = -1

Stack_size(t) == t + 1

\* new T[n]
NewArray(n) == [i \in 0 .. n - 1 |-> Uninit]

\* The values a read of a[i] can produce: the stored one, or anything when
\* the slot is outside the buffer or was never assigned.
ReadSlot(a, i) ==
    IF i \in DOMAIN a /\ a[i] # Uninit THEN {a[i]} ELSE Values

\* Mutant: the copy loop stops one short (i < topIndex).
Stack_resize_dropsTop(a, t, cap) ==
    [i \in 0 .. 2 * cap - 1 |-> IF i < t THEN a[i] ELSE Uninit]

\* Mutant: the capacity grows by one slot.
DoubledCapacity_plusOne(cap) == cap + 1

\* resize(): capacity *= 2.
DoubledCapacity(cap) == cap * 2

\* resize(): the buffer after capacity *= 2 and the copy loop.
Stack_resize(a, t, cap) ==
    [i \in 0 .. DoubledCapacity(cap) - 1 |-> IF i <= t THEN a[i] ELSE Uninit]

StackInit ==
    /\ arr = << >>
    /\ topIndex = -1
    /\ capacity = 0
    /\ sState = "none"
    /\ sOp = "none"
    /\ sRet = << >>
    /\ sErr = "none"
    /\ sInitCap = 0
    /\ sPushLog = << >>
    /\ sPopLog = << >>
    /\ sPhase = "pushing"
    /\ sModel = << >>
    /\ sGrowths = 0
    /\ sOOB = FALSE

\* Stack(int size): a negative size makes new T[size] throw.
Stack_Stack(size) ==
    /\ focus = "stack"
    /\ sState = "none"
    /\ sOp' = "Stack"
    /\ sInitCap' = size
    /\ sRet' = << >>
    /\ IF size < 0
       THEN /\ sState' = "failed"
            /\ sErr' = BadArrayNewLength
            /\ UNCHANGED stackFields
       ELSE /\ sState' = "live"
            /\ sErr' = "none"
            /\ arr' = NewArray(size)
            /\ capacity' = size
            /\ topIndex' = -1
    /\ UNCHANGED <<focus, queueVars, algoVars, sPushLog, sPopLog, sPhase,
                   sModel, sGrowths, sOOB>>

\* push(value), returning normally.
PushReturns(value, a1, cap1) ==
    /\ arr' = IF topIndex + 1 \in DOMAIN a1
              THEN [a1 EXCEPT ![topIndex + 1] = value] ELSE a1
    /\ capacity' = cap1
    /\ topIndex' = topIndex + 1
    /\ sOOB' = (sOOB \/ topIndex + 1 \notin DOMAIN a1)
    /\ sPushLog' = Append(sPushLog, value)
    /\ sModel' = Append(sModel, value)
    /\ sPhase' = IF sPhase = "pushing" THEN "pushing" ELSE "mixed"
    /\ UNCHANGED <<sState, sPopLog>>

\* push(value), the write outside the buffer ending the process.
PushCrashes(a1, cap1) ==
    /\ topIndex + 1 \notin DOMAIN a1
    /\ sState' = "crashed"
    /\ sOOB' = TRUE
    /\ arr' = a1
    /\ capacity' = cap1
    /\ UNCHANGED <<topIndex, sPushLog, sPopLog, sPhase, sModel>>

Stack_push(value) ==
    /\ focus = "stack"
    /\ sState = "live"
    /\ Len(sPushLog) < MaxPushes
    /\ sOp' = "push"
    /\ sRet' = << >>
    /\ sErr' = "none"
    /\ LET full == topIndex = capacity - 1
           a1 == IF full THEN Stack_resize(arr, topIndex, capacity) ELSE arr
           cap1 == IF full THEN DoubledCapacity(capacity) ELSE capacity
       IN  /\ PushReturns(value, a1, cap1) \/ PushCrashes(a1, cap1)
           /\ sGrowths' = IF full THEN sGrowths + 1 ELSE sGrowths
    /\ UNCHANGED <<focus, queueVars, algoVars, sInitCap>>

Stack_pop ==
    /\ focus = "stack"
    /\ sState = "live"
    /\ sOp' = "pop"
    /\ IF Stack_isEmpty(topIndex)
       THEN /\ sErr' = StackPopUnderflow
            /\ sRet' = << >>
            /\ UNCHANGED <<stackFields, sState, sPushLog, sPopLog, sPhase,
                           sModel, sOOB>>
       ELSE /\ sErr' = "none"
            /\ sOOB' = (sOOB \/ topIndex \notin DOMAIN arr)
            /\ \/ /\ \E value \in ReadSlot(arr, topIndex) :
                        /\ sRet' = <<value>>
                        /\ sPopLog' = Append(sPopLog, value)
                  /\ topIndex' = topIndex - 1
                  /\ sModel' = Front(sModel)
                  /\ sPhase' = IF sPhase = "mixed" THEN "mixed" ELSE "popping"
                  /\ UNCHANGED <<arr, capacity, sState, sPushLog>>
               \/ /\ topIndex \notin DOMAIN arr
                  /\ sState' = "crashed"
                  /\ sRet' = << >>
                  /\ UNCHANGED <<stackFields, sPushLog, sPopLog, sPhase,
                                 sModel>>
    /\ UNCHANGED <<focus, queueVars, algoVars, sInitCap, sGrowths>>

Stack_peek ==
    /\ focus = "stack"
    /\ sState = "live"
    /\ sOp' = "peek"
    /\ IF Stack_isEmpty(topIndex)
       THEN /\ sErr' = StackPeekUnderflow
            /\ sRet' = << >>
            /\ UNCHANGED <<sState, sOOB>>
       ELSE /\ sErr' = "none"
            /\ sOOB' = (sOOB \/ topIndex \notin DOMAIN arr)
            /\ \/ /\ \E value \in ReadSlot(arr, topIndex) : sRet' = <<value>>
                  /\ UNCHANGED sState
               \/ /\ topIndex \notin DOMAIN arr
                  /\ sState' = "crashed"
                  /\ sRet' = << >>
    /\ UNCHANGED <<focus, queueVars, algoVars, stackFields, stackHist>>

\* A call of isEmpty() on the stack.
Call_Stack_isEmpty ==
    /\ focus = "stack"
    /\ sState = "live"
    /\ sOp' = "isEmpty"
    /\ sRet' = <<Stack_isEmpty(topIndex)>>
    /\ sErr' = "none"
    /\ UNCHANGED <<focus, queueVars, algoVars, stackFields, stackHist,
                   sState, sOOB>>

\* A call of size() on the stack.
Call_Stack_size ==
    /\ focus = "stack"
    /\ sState = "live"
    /\ sOp' = "size"
    /\ sRet' = <<Stack_size(topIndex)>>
    /\ sErr' = "none"
    /\ UNCHANGED <<focus, queueVars, algoVars, stackFields, stackHist,
                   sState, sOOB>>

StackNext ==
    \/ \E size \in InitSizes : Stack_Stack(size)
    \/ \E value \in Values : Stack_push(value)
    \/ Stack_pop
    \/ Stack_peek
    \/ Call_Stack_isEmpty
    \/ Call_Stack_size

\* ------------------------------------------------------------------------
\* Node<T> and Queue<T>
\* ------------------------------------------------------------------------
nullptr == 0

QueueDequeueUnderflow == "Queue Underflow: Cannot dequeue from empty queue"
QueueFrontUnderflow == "Queue is empty: Cannot access front"

\* Node(T value) : data(value), next(nullptr); frees counts its deletions.
Node(value) == [data |-> value, next |-> nullptr, frees |-> 0]

\* p points to a node that is allocated and not deleted.
LiveNode(h, p) == p \in 1 .. Len(h) /\ h[p].frees = 0

Queue_isEmpty(f) == f = nullptr

Queue_size(c) == c

\* Mutant: the new node is linked in at the front.
EnqueueFields_atFront(h, f, r, c, value) ==
    LET newNode == Len(h) + 1
        h1 == Append(h, Node(value))
    IN  IF Queue_isEmpty(f)
        THEN [heap |-> h1, frontPtr |-> newNode, rearPtr |-> newNode,
              count |-> c + 1]
        ELSE [heap |-> [h1 EXCEPT ![newNode].next = f], frontPtr |-> newNode,
              rearPtr |-> r, count |-> c + 1]

\* The fields after enqueue(value); the new node gets the next address.
EnqueueFields(h, f, r, c, value) ==
    LET newNode == Len(h) + 1
        h1 == Append(h, Node(value))
    IN  IF Queue_isEmpty(f)
        THEN [heap |-> h1, frontPtr |-> newNode, rearPtr |-> newNode,
              count |-> c + 1]
        ELSE [heap |-> [h1 EXCEPT ![r].next = newNode], frontPtr |-> f,
              rearPtr |-> newNode, count |-> c + 1]

\* Mutant: the detached node is never deleted.
DequeueFields_leaks(h, f, r, c, fl) ==
    LET temp == f
        f1 == h[f].next
    IN  [heap |-> h,
         frontPtr |-> f1,
         rearPtr |-> IF f1 = nullptr THEN nullptr ELSE r,
         count |-> c - 1,
         freeLog |-> fl,
         value |-> h[temp].data]

\* Mutant: count is not decremented.
DequeueFields_keepsCount(h, f, r, c, fl) ==
    LET temp == f
        f1 == h[f].next
    IN  [heap |-> [h EXCEPT ![temp].frees = @ + 1],
         frontPtr |-> f1,
         rearPtr |-> IF f1 = nullptr THEN nullptr ELSE r,
         count |-> c,
         freeLog |-> Append(fl, temp),
         value |-> h[temp].data]

\* Mutant: rearPtr is not reset when the last node goes.
DequeueFields_keepsRear(h, f, r, c, fl) ==
    LET temp == f
        f1 == h[f].next
    IN  [heap |-> [h EXCEPT ![temp].frees = @ + 1],
         frontPtr |-> f1,
         rearPtr |-> r,
         count |-> c - 1,
         freeLog |-> Append(fl, temp),
         value |-> h[temp].data]

\* The fields after a dequeue() that does not throw, frontPtr being live.
DequeueFields(h, f, r, c, fl) ==
    LET temp == f
        f1 == h[f].next
    IN  [heap |-> [h EXCEPT ![temp].frees = @ + 1],
         frontPtr |-> f1,
         rearPtr |-> IF f1 = nullptr THEN nullptr ELSE r,
         count |-> c - 1,
         freeLog |-> Append(fl, temp),
         value |-> h[temp].data]

\* ~Queue(): while (!isEmpty()) dequeue(); ok is FALSE if the loop
\* dereferences a node that is not live.
RECURSIVE Drain(_, _, _, _, _)
Drain(h, f, r, c, fl) ==
    IF Queue_isEmpty(f)
    THEN [heap |-> h, frontPtr |-> f, rearPtr |-> r, count |-> c,
          freeLog |-> fl, ok |-> TRUE]
    ELSE IF ~LiveNode(h, f)
    THEN [heap |-> h, frontPtr |-> f, rearPtr |-> r, count |-> c,
          freeLog |-> fl, ok |-> FALSE]
    ELSE LET d == DequeueFields(h, f, r, c, fl)
         IN  Drain(d.heap, d.frontPtr, d.rearPtr, d.count, d.freeLog)

QueueInit ==
    /\ heap = << >>
    /\ frontPtr = nullptr
    /\ rearPtr = nullptr
    /\ count = 0
    /\ qState = "none"
    /\ qOp = "none"
    /\ qRet = << >>
    /\ qErr = "none"
    /\ qEnqLog = << >>
    /\ qDeqLog = << >>
    /\ qPhase = "enqueueing"
    /\ qModel = << >>
    /\ qFreeLog = << >>
    /\ qBadDeref = FALSE

Queue_Queue ==
    /\ focus = "queue"
    /\ qState = "none"
    /\ qState' = "live"
    /\ qOp' = "Queue"
    /\ frontPtr' = nullptr
    /\ rearPtr' = nullptr
    /\ count' = 0
    /\ UNCHANGED <<focus, stackVars, algoVars, heap, qFreeLog, queueHist, qRet, qErr,
                   qBadDeref>>

Queue_enqueue(value) ==
    /\ focus = "queue"
    /\ qState = "live"
    /\ Len(heap) < MaxNodes
    /\ qOp' = "enqueue"
    /\ qRet' = << >>
    /\ qErr' = "none"
    /\ LET e == EnqueueFields(heap, frontPtr, rearPtr, count, value)
       IN  /\ heap' = e.heap
           /\ frontPtr' = e.frontPtr
           /\ rearPtr' = e.rearPtr
           /\ count' = e.count
    /\ qBadDeref' = (qBadDeref \/ (~Queue_isEmpty(frontPtr)
                                   /\ ~LiveNode(heap, rearPtr)))
    /\ qEnqLog' = Append(qEnqLog, value)
    /\ qModel' = Append(qModel, value)
    /\ qPhase' = IF qPhase = "enqueueing" THEN "enqueueing" ELSE "mixed"
    /\ UNCHANGED <<focus, stackVars, algoVars, qState, qDeqLog, qFreeLog>>

Queue_dequeue ==
    /\ focus = "queue"
    /\ qState = "live"
    /\ qOp' = "dequeue"
    /\ IF Queue_isEmpty(frontPtr)
       THEN /\ qErr' = QueueDequeueUnderflow
            /\ qRet' = << >>
            /\ UNCHANGED <<queueFields, queueHist, qState, qBadDeref>>
       ELSE /\ qErr' = "none"
            /\ IF LiveNode(heap, frontPtr)
               THEN LET d == DequeueFields(heap, frontPtr, rearPtr, count,
                                           qFreeLog)
                    IN  /\ heap' = d.heap
                        /\ frontPtr' = d.frontPtr
                        /\ rearPtr' = d.rearPtr
                        /\ count' = d.count
                        /\ qFreeLog' = d.freeLog
                        /\ qRet' = <<d.value>>
                        /\ qDeqLog' = Append(qDeqLog, d.value)
                        /\ qModel' = Tail(qModel)
                        /\ qPhase' = IF qPhase = "mixed" THEN "mixed"
                                     ELSE "dequeueing"
                        /\ UNCHANGED <<qState, qBadDeref, qEnqLog>>
               ELSE /\ qState' = "crashed"
                    /\ qBadDeref' = TRUE
                    /\ qRet' = << >>
                    /\ UNCHANGED <<queueFields, queueHist>>
    /\ UNCHANGED <<focus, stackVars, algoVars>>

Queue_front ==
    /\ focus = "queue"
    /\ qState = "live"
    /\ qOp' = "front"
    /\ IF Queue_isEmpty(frontPtr)
       THEN /\ qErr' = QueueFrontUnderflow
            /\ qRet' = << >>
            /\ UNCHANGED <<qState, qBadDeref>>
       ELSE /\ qErr' = "none"
            /\ IF LiveNode(heap, frontPtr)
               THEN /\ qRet' = <<heap[frontPtr].data>>
                    /\ UNCHANGED <<qState, qBadDeref>>
               ELSE /\ qState' = "crashed"
                    /\ qBadDeref' = TRUE
                    /\ qRet' = << >>
    /\ UNCHANGED <<focus, stackVars, algoVars, queueFields, queueHist>>

\* A call of isEmpty() on the queue.
Call_Queue_isEmpty ==
    /\ focus = "queue"
    /\ qState = "live"
    /\ qOp' = "isEmpty"
    /\ qRet' = <<Queue_isEmpty(frontPtr)>>
    /\ qErr' = "none"
    /\ UNCHANGED <<focus, stackVars, algoVars, queueFields, queueHist,
                   qState, qBadDeref>>

\* A call of size() on the queue.
Call_Queue_size ==
    /\ focus = "queue"
    /\ qState = "live"
    /\ qOp' = "size"
    /\ qRet' = <<Queue_size(count)>>
    /\ qErr' = "none"
    /\ UNCHANGED <<focus, stackVars, algoVars, queueFields, queueHist,
                   qState, qBadDeref>>

\* ~Queue()
Queue_dtor ==
    /\ focus = "queue"
    /\ qState = "live"
    /\ qOp' = "~Queue"
    /\ qRet' = << >>
    /\ qErr' = "none"
    /\ LET d == Drain(heap, frontPtr, rearPtr, count, qFreeLog)
       IN  /\ heap' = d.heap
           /\ frontPtr' = d.frontPtr
           /\ rearPtr' = d.rearPtr
           /\ count' = d.count
           /\ qFreeLog' = d.freeLog
           /\ qState' = IF d.ok THEN "destroyed" ELSE "crashed"
           /\ qBadDeref' = (qBadDeref \/ ~d.ok)
    /\ UNCHANGED <<focus, stackVars, algoVars, queueHist>>

QueueNext ==
    \/ Queue_Queue
    \/ \E value \in Values : Queue_enqueue(value)
    \/ Queue_dequeue
    \/ Queue_front
    \/ Call_Queue_isEmpty
    \/ Call_Queue_size
    \/ Queue_dtor

\* ------------------------------------------------------------------------
\* Sorting and searching (sorting_searching.java)
\*
\* An int[] of length n is a function on 0..n-1.  An element is a record
\* [key, tag]: key is the int the routines compare, tag is the index the
\* element had in the input, which the routines never look at; it tells
\* equal keys apart.
\* ------------------------------------------------------------------------
Keys == 1 .. MaxKey

length(a) == Cardinality(DOMAIN a)

\* The arrays of length n with keys from Keys, tagged by position.
ArraysOfLen(n) ==
    { [i \in 0 .. n - 1 |-> [key |-> ks[i], tag |-> i]] :
        ks \in [0 .. n - 1 -> Keys] }

Inputs == UNION { ArraysOfLen(n) : n \in 0 .. MaxLen }

\* Targets include a value below and a value above every key.
Targets == 0 .. MaxKey + 1

swap(a, i, j) == [a EXCEPT ![i] = a[j], ![j] = a[i]]

\* Mutant: a swap does not set the swapped flag.
RECURSIVE BubbleInner_noFlag(_, _, _, _)
BubbleInner_noFlag(a, i, j, swapped) ==
    IF j < length(a) - 1 - i
    THEN IF a[j].key > a[j + 1].key
         THEN BubbleInner_noFlag(swap(a, j, j + 1), i, j + 1, swapped)
         ELSE BubbleInner_noFlag(a, i, j + 1, swapped)
    ELSE [arr |-> a, swapped |-> swapped]

\* bubbleSort: the inner loop of pass i, from j on.
RECURSIVE BubbleInner(_, _, _, _)
BubbleInner(a, i, j, swapped) ==
    IF j < length(a) - 1 - i
    THEN IF a[j].key > a[j + 1].key
         THEN BubbleInner(swap(a, j, j + 1), i, j + 1, TRUE)
         ELSE BubbleInner(a, i, j + 1, swapped)
    ELSE [arr |-> a, swapped |-> swapped]

\* bubbleSort: the outer loop, from pass i on.
RECURSIVE BubbleOuter(_, _)
BubbleOuter(a, i) ==
    IF i < length(a) - 1
    THEN LET pass == BubbleInner(a, i, 0, FALSE)
         IN  IF ~pass.swapped THEN pass.arr
             ELSE BubbleOuter(pass.arr, i + 1)
    ELSE a

\* bubbleSort: the outer loop from pass i on, as the sequence of its
\* passes: the array and the swapped flag at the end of each.
RECURSIVE BubblePasses(_, _)
BubblePasses(a, i) ==
    IF i < length(a) - 1
    THEN LET pass == BubbleInner(a, i, 0, FALSE)
         IN  IF ~pass.swapped THEN <<pass>>
             ELSE <<pass>> \o BubblePasses(pass.arr, i + 1)
    ELSE << >>

bubbleSort(a) == BubbleOuter(a, 0)

\* selectionSort: the inner loop, from j on; the result is minIdx.
RECURSIVE SelectMin(_, _, _)
SelectMin(a, j, minIdx) ==
    IF j < length(a)
    THEN SelectMin(a, j + 1, IF a[j].key < a[minIdx].key THEN j ELSE minIdx)
    ELSE minIdx

RECURSIVE SelectionOuter(_, _)
SelectionOuter(a, i) ==
    IF i < length(a) - 1
    THEN SelectionOuter(swap(a, i, SelectMin(a, i + 1, i)), i + 1)
    ELSE a

selectionSort(a) == SelectionOuter(a, 0)

\* Mutant: the shift loop stops at j > 0 and never looks at arr[0].
RECURSIVE InsertShift_skipsFirst(_, _, _)
InsertShift_skipsFirst(a, j, key) ==
    IF j > 0 /\ a[j].key > key.key
    THEN InsertShift_skipsFirst([a EXCEPT ![j + 1] = a[j]], j - 1, key)
    ELSE [a EXCEPT ![j + 1] = key]

\* insertionSort: the while loop shifting larger predecessors of key,
\* followed by arr[j + 1] = key.
RECURSIVE InsertShift(_, _, _)
InsertShift(a, j, key) ==
    IF j >= 0 /\ a[j].key > key.key
    THEN InsertShift([a EXCEPT ![j + 1] = a[j]], j - 1, key)
    ELSE [a EXCEPT ![j + 1] = key]

RECURSIVE InsertionOuter(_, _)
InsertionOuter(a, i) ==
    IF i < length(a)
    THEN InsertionOuter(InsertShift(a, i - 1, a[i]), i + 1)
    ELSE a

insertionSort(a) == InsertionOuter(a, 1)

\* Mutant: the merge takes from the right half on ties (L[i] < R[j]).
RECURSIVE MergeLoop_rightOnTies(_, _, _, _, _, _)
MergeLoop_rightOnTies(a, L, R, i, j, k) ==
    IF i < length(L) /\ j < length(R)
    THEN IF L[i].key < R[j].key
         THEN MergeLoop_rightOnTies([a EXCEPT ![k] = L[i]], L, R,
                                    i + 1, j, k + 1)
         ELSE MergeLoop_rightOnTies([a EXCEPT ![k] = R[j]], L, R,
                                    i, j + 1, k + 1)
    ELSE IF i < length(L)
    THEN MergeLoop_rightOnTies([a EXCEPT ![k] = L[i]], L, R, i + 1, j, k + 1)
    ELSE IF j < length(R)
    THEN MergeLoop_rightOnTies([a EXCEPT ![k] = R[j]], L, R, i, j + 1, k + 1)
    ELSE a

\* merge: the three while loops, from (i, j, k) on; L and R are the copies
\* of arr[left..mid] and arr[mid+1..right].
RECURSIVE MergeLoop(_, _, _, _, _, _)
MergeLoop(a, L, R, i, j, k) ==
    IF i < length(L) /\ j < length(R)
    THEN IF L[i].key <= R[j].key
         THEN MergeLoop([a EXCEPT ![k] = L[i]], L, R, i + 1, j, k + 1)
         ELSE MergeLoop([a EXCEPT ![k] = R[j]], L, R, i, j + 1, k + 1)
    ELSE IF i < length(L)
    THEN MergeLoop([a EXCEPT ![k] = L[i]], L, R, i + 1, j, k + 1)
    ELSE IF j < length(R)
    THEN MergeLoop([a EXCEPT ![k] = R[j]], L, R, i, j + 1, k + 1)
    ELSE a

merge(a, left, mid, right) ==
    LET n1 == mid - left + 1
        n2 == right - mid
        L == [i \in 0 .. n1 - 1 |-> a[left + i]]
        R == [j \in 0 .. n2 - 1 |-> a[mid + 1 + j]]
    IN  MergeLoop(a, L, R, 0, 0, left)

RECURSIVE mergeSortRange(_, _, _)
mergeSortRange(a, left, right) ==
    IF left >= right THEN a
    ELSE LET mid == left + (right - left) \div 2
             a1 == mergeSortRange(a, left, mid)
             a2 == mergeSortRange(a1, mid + 1, right)
         IN  merge(a2, left, mid, right)

mergeSort(a) ==
    IF length(a) <= 1 THEN a ELSE mergeSortRange(a, 0, length(a) - 1)

\* Mutant: only elements below the pivot go left (arr[j] < pivot).
RECURSIVE PartitionLoop_strict(_, _, _, _, _)
PartitionLoop_strict(a, high, pivot, i, j) ==
    IF j < high
    THEN IF a[j].key < pivot.key
         THEN PartitionLoop_strict(swap(a, i + 1, j), high, pivot,
                                   i + 1, j + 1)
         ELSE PartitionLoop_strict(a, high, pivot, i, j + 1)
    ELSE [arr |-> swap(a, i + 1, high), p |-> i + 1]

\* partition: the for loop, from j on; i is the boundary.
RECURSIVE PartitionLoop(_, _, _, _, _)
PartitionLoop(a, high, pivot, i, j) ==
    IF j < high
    THEN IF a[j].key <= pivot.key
         THEN PartitionLoop(swap(a, i + 1, j), high, pivot, i + 1, j + 1)
         ELSE PartitionLoop(a, high, pivot, i, j + 1)
    ELSE [arr |-> swap(a, i + 1, high), p |-> i + 1]

partition(a, low, high) == PartitionLoop(a, high, a[high], low - 1, low)

RECURSIVE quickSortRange(_, _, _)
quickSortRange(a, low, high) ==
    IF low < high
    THEN LET part == partition(a, low, high)
             a1 == quickSortRange(part.arr, low, part.p - 1)
         IN  quickSortRange(a1, part.p + 1, high)
    ELSE a

quickSort(a) == quickSortRange(a, 0, length(a) - 1)

\* The not-found result of both searches.
NotFound == -1

\* Mutant: the scan stops before the last element (i < arr.length - 1).
RECURSIVE LinearLoop_skipsLast(_, _, _)
LinearLoop_skipsLast(a, t, i) ==
    IF i < length(a) - 1
    THEN IF a[i].key = t THEN i ELSE LinearLoop_skipsLast(a, t, i + 1)
    ELSE NotFound

RECURSIVE LinearLoop(_, _, _)
LinearLoop(a, t, i) ==
    IF i < length(a)
    THEN IF a[i].key = t THEN i ELSE LinearLoop(a, t, i + 1)
    ELSE NotFound

linearSearch(a, t) == LinearLoop(a, t, 0)

\* Mutant: the loop runs while left < right and misses a range of one.
RECURSIVE BinaryLoop_strict(_, _, _, _)
BinaryLoop_strict(a, t, left, right) ==
    IF left < right
    THEN LET mid == left + (right - left) \div 2
         IN  IF a[mid].key = t THEN mid
             ELSE IF a[mid].key < t
             THEN BinaryLoop_strict(a, t, mid + 1, right)
             ELSE BinaryLoop_strict(a, t, left, mid - 1)
    ELSE NotFound

\* Mutant: the halves are taken the wrong way round (arr[mid] > target).
RECURSIVE BinaryLoop_wrongHalf(_, _, _, _)
BinaryLoop_wrongHalf(a, t, left, right) ==
    IF left <= right
    THEN LET mid == left + (right - left) \div 2
         IN  IF a[mid].key = t THEN mid
             ELSE IF a[mid].key > t
             THEN BinaryLoop_wrongHalf(a, t, mid + 1, right)
             ELSE BinaryLoop_wrongHalf(a, t, left, mid - 1)
    ELSE NotFound

RECURSIVE BinaryLoop(_, _, _, _)
BinaryLoop(a, t, left, right) ==
    IF left <= right
    THEN LET mid == left + (right - left) \div 2
         IN  IF a[mid].key = t THEN mid
             ELSE IF a[mid].key < t THEN BinaryLoop(a, t, mid + 1, right)
             ELSE BinaryLoop(a, t, left, mid - 1)
    ELSE NotFound

binarySearch(a, t) == BinaryLoop(a, t, 0, length(a) - 1)

AlgoIdle ==
    /\ input = << >>
    /\ target = 0
    /\ aOp = "none"
    /\ data = << >>
    /\ found = << >>
    /\ frames = << >>

\* The caller's array and target, before the call.
AlgoInit ==
    /\ input \in Inputs
    /\ target \in Targets
    /\ aOp = "none"
    /\ data = input
    /\ found = << >>
    /\ frames = << >>

\* A call of one of the five sorts.
CallSort(name, sorted) ==
    /\ focus = "algo"
    /\ aOp = "none"
    /\ aOp' = name
    /\ data' = sorted
    /\ UNCHANGED <<focus, stackVars, queueVars, input, target, found, frames>>

\* A call of one of the two searches; they leave the array alone.
CallSearch(name, index) ==
    /\ focus = "algo"
    /\ aOp = "none"
    /\ aOp' = name
    /\ found' = <<index>>
    /\ UNCHANGED <<focus, stackVars, queueVars, input, target, data,
                   frames>>

Call_bubbleSort == CallSort("bubbleSort", bubbleSort(data))
Call_selectionSort == CallSort("selectionSort", selectionSort(data))
Call_insertionSort == CallSort("insertionSort", insertionSort(data))
Call_mergeSort == CallSort("mergeSort", mergeSort(data))
Call_quickSort == CallSort("quickSort", quickSort(data))
Call_linearSearch == CallSearch("linearSearch", linearSearch(data, target))
Call_binarySearch == CallSearch("binarySearch", binarySearch(data, target))

\* main: linearSearch and then binarySearch, of the same array and target;
\* found is <<index of linearSearch, index of binarySearch>>.
Call_bothSearches ==
    /\ focus = "algo"
    /\ aOp = "none"
    /\ aOp' = "bothSearches"
    /\ found' = <<linearSearch(data, target), binarySearch(data, target)>>
    /\ UNCHANGED <<focus, stackVars, queueVars, input, target, data,
                   frames>>

\* A call partition(arr, low, high) on a range of the array with
\* low < high, as quickSort(arr, low, high) makes it; found is
\* <<p, low, high>>.
Call_partition(low, high) ==
    /\ focus = "algo"
    /\ aOp = "none"
    /\ low < high
    /\ aOp' = "partition"
    /\ LET part == partition(data, low, high)
       IN  /\ data' = part.arr
           /\ found' = <<part.p, low, high>>
    /\ UNCHANGED <<focus, stackVars, queueVars, input, target, frames>>

AlgoNext ==
    \/ Call_bubbleSort
    \/ Call_selectionSort
    \/ Call_insertionSort
    \/ Call_mergeSort
    \/ Call_quickSort
    \/ Call_linearSearch
    \/ Call_binarySearch
    \/ Call_bothSearches
    \/ \E low, high \in DOMAIN data : Call_partition(low, high)

\* ------------------------------------------------------------------------
\* Specification
\* ------------------------------------------------------------------------
Init ==
    /\ focus \in {"stack", "queue", "algo"}
    /\ StackInit
    /\ QueueInit
    /\ IF focus = "algo" THEN AlgoInit ELSE AlgoIdle

Next ==
    \/ StackNext
    \/ QueueNext
    \/ AlgoNext

Spec == Init /\ [][Next]_vars

\* ------------------------------------------------------------------------
\* The routines of sorting_searching.java, statement by statement
\*
\* `frames` is the call stack of one call of a routine on `data`: a frame
\* holds the function, its position (pc) and its locals; the last frame is
\* the running one.  A step is one loop test with the loop body it lets in,
\* or one call or return.  The routine has returned when frames is empty.
\* ------------------------------------------------------------------------
StepInputs == UNION { ArraysOfLen(n) : n \in 0 .. StepMaxLen }

Sorts ==
    {"bubbleSort", "selectionSort", "insertionSort", "mergeSort", "quickSort"}

Searches == {"linearSearch", "binarySearch"}

\* new int[n]: n zeroes.
NewIntArray(n) == [x \in 0 .. n - 1 |-> [key |-> 0, tag |-> 0]]

Top == frames[Len(frames)]

\* The running call moves on to f.
Goto(f) == [frames EXCEPT ![Len(frames)] = f]

\* The running call moves on to f and calls g.
Call(f, g) == Append(Goto(f), g)

\* The running call returns.
Return == SubSeq(frames, 1, Len(frames) - 1)

Running(fn) ==
    /\ focus = "steps"
    /\ frames # << >>
    /\ Top.fn = fn

\* The frame of a call, at its first statement.
Enter_mergeSortRange(left, right) ==
    [fn |-> "mergeSortRange", pc |-> "entry", left |-> left, right |-> right]

Enter_merge(left, mid, right) ==
    [fn |-> "merge", pc |-> "copyL", left |-> left, mid |-> mid,
     right |-> right, L |-> NewIntArray(mid - left + 1),
     R |-> NewIntArray(right - mid), i |-> 0, j |-> 0, k |-> left]

Enter_quickSortRange(low, high) ==
    [fn |-> "quickSortRange", pc |-> "entry", low |-> low, high |-> high]

Enter_partition(a, low, high) ==
    [fn |-> "partition", low |-> low, high |-> high, pivot |-> a[high],
     i |-> low - 1, j |-> low]

\* Mutant: binarySearch starts with right = arr.length.
Enter_rightIsLength(name, a) ==
    CASE name = "bubbleSort" -> [fn |-> name, pc |-> "for_i", i |-> 0]
      [] name = "selectionSort" -> [fn |-> name, pc |-> "for_i", i |-> 0]
      [] name = "insertionSort" -> [fn |-> name, pc |-> "for_i", i |-> 1]
      [] name = "mergeSort" -> [fn |-> name, pc |-> "entry"]
      [] name = "quickSort" -> [fn |-> name, pc |-> "entry"]
      [] name = "linearSearch" -> [fn |-> name, i |-> 0]
      [] name = "binarySearch" ->
            [fn |-> name, left |-> 0, right |-> length(a)]

Enter(name, a) ==
    CASE name = "bubbleSort" -> [fn |-> name, pc |-> "for_i", i |-> 0]
      [] name = "selectionSort" -> [fn |-> name, pc |-> "for_i", i |-> 0]
      [] name = "insertionSort" -> [fn |-> name, pc |-> "for_i", i |-> 1]
      [] name = "mergeSort" -> [fn |-> name, pc |-> "entry"]
      [] name = "quickSort" -> [fn |-> name, pc |-> "entry"]
      [] name = "linearSearch" -> [fn |-> name, i |-> 0]
      [] name = "binarySearch" ->
            [fn |-> name, left |-> 0, right |-> length(a) - 1]

\* bubbleSort: the outer for (for_i) and the inner for (for_j).
Step_bubbleSort ==
    /\ Running("bubbleSort")
    /\ LET f == Top
       IN  IF f.pc = "for_i"
           THEN /\ frames' =
                       IF f.i < length(data) - 1
                       THEN Goto([fn |-> f.fn, pc |-> "for_j", i |-> f.i,
                                  j |-> 0, swapped |-> FALSE])
                       ELSE Return
                /\ data' = data
           ELSE IF f.j < length(data) - 1 - f.i
                THEN IF data[f.j].key > data[f.j + 1].key
                     THEN /\ data' = swap(data, f.j, f.j + 1)
                          /\ frames' = Goto([f EXCEPT !.j = f.j + 1,
                                                      !.swapped = TRUE])
                     ELSE /\ data' = data
                          /\ frames' = Goto([f EXCEPT !.j = f.j + 1])
                ELSE /\ frames' =
                            IF ~f.swapped
                            THEN Return
                            ELSE Goto([fn |-> f.fn, pc |-> "for_i",
                                       i |-> f.i + 1])
                     /\ data' = data
    /\ UNCHANGED <<focus, stackVars, queueVars, input, target, aOp, found>>

\* selectionSort: the outer for (for_i) and the inner for (for_j).
Step_selectionSort ==
    /\ Running("selectionSort")
    /\ LET f == Top
       IN  IF f.pc = "for_i"
           THEN /\ frames' =
                       IF f.i < length(data) - 1
                       THEN Goto([fn |-> f.fn, pc |-> "for_j", i |-> f.i,
                                  minIdx |-> f.i, j |-> f.i + 1])
                       ELSE Return
                /\ data' = data
           ELSE IF f.j < length(data)
                THEN /\ frames' =
                            IF data[f.j].key < data[f.minIdx].key
                            THEN Goto([f EXCEPT !.minIdx = f.j,
                                                !.j = f.j + 1])
                            ELSE Goto([f EXCEPT !.j = f.j + 1])
                     /\ data' = data
                ELSE /\ data' = swap(data, f.i, f.minIdx)
                     /\ frames' = Goto([fn |-> f.fn, pc |-> "for_i",
                                        i |-> f.i + 1])
    /\ UNCHANGED <<focus, stackVars, queueVars, input, target, aOp, found>>

\* insertionSort: the for (for_i) and the while.
Step_insertionSort ==
    /\ Running("insertionSort")
    /\ LET f == Top
       IN  IF f.pc = "for_i"
           THEN /\ frames' =
                       IF f.i < length(data)
                       THEN Goto([fn |-> f.fn, pc |-> "while", i |-> f.i,
                                  key |-> data[f.i], j |-> f.i - 1])
                       ELSE Return
                /\ data' = data
           ELSE IF f.j >= 0 /\ data[f.j].key > f.key.key
                THEN /\ data' = [data EXCEPT ![f.j + 1] = data[f.j]]
                     /\ frames' = Goto([f EXCEPT !.j = f.j - 1])
                ELSE /\ data' = [data EXCEPT ![f.j + 1] = f.key]
                     /\ frames' = Goto([fn |-> f.fn, pc |-> "for_i",
                                        i |-> f.i + 1])
    /\ UNCHANGED <<focus, stackVars, queueVars, input, target, aOp, found>>

\* mergeSort(arr).
Step_mergeSort ==
    /\ Running("mergeSort")
    /\ frames' =
           IF Top.pc = "entry" /\ length(data) > 1
           THEN Call([fn |-> "mergeSort", pc |-> "sorted"],
                     Enter_mergeSortRange(0, length(data) - 1))
           ELSE Return
    /\ UNCHANGED <<focus, stackVars, queueVars, input, target, aOp, data,
                   found>>

\* mergeSort(arr, left, right): the base case, the two recursive calls
\* and the call of merge.
Step_mergeSortRange ==
    /\ Running("mergeSortRange")
    /\ LET f == Top
       IN  frames' =
               CASE f.pc = "entry" ->
                     IF f.left >= f.right
                     THEN Return
                     ELSE LET mid == f.left + (f.right - f.left) \div 2
                          IN  Call([fn |-> f.fn, pc |-> "sortedLeft",
                                    left |-> f.left, right |-> f.right,
                                    mid |-> mid],
                                   Enter_mergeSortRange(f.left, mid))
                 [] f.pc = "sortedLeft" ->
                     Call([f EXCEPT !.pc = "sortedRight"],
                          Enter_mergeSortRange(f.mid + 1, f.right))
                 [] f.pc = "sortedRight" ->
                     Call([f EXCEPT !.pc = "merged"],
                          Enter_merge(f.left, f.mid, f.right))
                 [] f.pc = "merged" -> Return
    /\ UNCHANGED <<focus, stackVars, queueVars, input, target, aOp, data,
                   found>>

\* merge: the two copying loops, the merging while and the two whiles
\* that copy what is left of L and of R.
Step_merge ==
    /\ Running("merge")
    /\ LET f == Top
           n1 == f.mid - f.left + 1
           n2 == f.right - f.mid
       IN  CASE f.pc = "copyL" ->
                 /\ frames' =
                        IF f.i < n1
                        THEN Goto([f EXCEPT
                                     !.L = [f.L EXCEPT
                                              ![f.i] = data[f.left + f.i]],
                                     !.i = f.i + 1])
                        ELSE Goto([f EXCEPT !.pc = "copyR", !.j = 0])
                 /\ data' = data
             [] f.pc = "copyR" ->
                 /\ frames' =
                        IF f.j < n2
                        THEN Goto([f EXCEPT
                                     !.R = [f.R EXCEPT
                                              ![f.j] = data[f.mid + 1 + f.j]],
                                     !.j = f.j + 1])
                        ELSE Goto([f EXCEPT !.pc = "merge", !.i = 0,
                                            !.j = 0, !.k = f.left])
                 /\ data' = data
             [] f.pc = "merge" ->
                 IF f.i < n1 /\ f.j < n2
                 THEN IF f.L[f.i].key <= f.R[f.j].key
                      THEN /\ data' = [data EXCEPT ![f.k] = f.L[f.i]]
                           /\ frames' = Goto([f EXCEPT !.k = f.k + 1,
                                                       !.i = f.i + 1])
                      ELSE /\ data' = [data EXCEPT ![f.k] = f.R[f.j]]
                           /\ frames' = Goto([f EXCEPT !.k = f.k + 1,
                                                       !.j = f.j + 1])
                 ELSE /\ frames' = Goto([f EXCEPT !.pc = "restL"])
                      /\ data' = data
             [] f.pc = "restL" ->
                 IF f.i < n1
                 THEN /\ data' = [data EXCEPT ![f.k] = f.L[f.i]]
                      /\ frames' = Goto([f EXCEPT !.k = f.k + 1,
                                                  !.i = f.i + 1])
                 ELSE /\ frames' = Goto([f EXCEPT !.pc = "restR"])
                      /\ data' = data
             [] f.pc = "restR" ->
                 IF f.j < n2
                 THEN /\ data' = [data EXCEPT ![f.k] = f.R[f.j]]
                      /\ frames' = Goto([f EXCEPT !.k = f.k + 1,
                                                  !.j = f.j + 1])
                 ELSE /\ frames' = Return
                      /\ data' = data
    /\ UNCHANGED <<focus, stackVars, queueVars, input, target, aOp, found>>

\* quickSort(arr).
Step_quickSort ==
    /\ Running("quickSort")
    /\ frames' =
           IF Top.pc = "entry"
           THEN Call([fn |-> "quickSort", pc |-> "sorted"],
                     Enter_quickSortRange(0, length(data) - 1))
           ELSE Return
    /\ UNCHANGED <<focus, stackVars, queueVars, input, target, aOp, data,
                   found>>

\* quickSort(arr, low, high): the test, the call of partition and the two
\* recursive calls.
Step_quickSortRange ==
    /\ Running("quickSortRange")
    /\ LET f == Top
       IN  frames' =
               CASE f.pc = "entry" ->
                     IF f.low < f.high
                     THEN Call([f EXCEPT !.pc = "partitioning"],
                               Enter_partition(data, f.low, f.high))
                     ELSE Return
                 [] f.pc = "partitioned" ->
                     Call([f EXCEPT !.pc = "sortedLeft"],
                          Enter_quickSortRange(f.low, f.p - 1))
                 [] f.pc = "sortedLeft" ->
                     Call([f EXCEPT !.pc = "sortedRight"],
                          Enter_quickSortRange(f.p + 1, f.high))
                 [] f.pc = "sortedRight" -> Return
    /\ UNCHANGED <<focus, stackVars, queueVars, input, target, aOp, data,
                   found>>

\* partition: the for loop, then the last swap and the return of i + 1
\* into p of the calling quickSort(arr, low, high).
Step_partition ==
    /\ Running("partition")
    /\ LET f == Top
           caller == frames[Len(frames) - 1]
       IN  IF f.j < f.high
           THEN IF data[f.j].key <= f.pivot.key
                THEN /\ data' = swap(data, f.i + 1, f.j)
                     /\ frames' = Goto([f EXCEPT !.i = f.i + 1,
                                                 !.j = f.j + 1])
                ELSE /\ data' = data
                     /\ frames' = Goto([f EXCEPT !.j = f.j + 1])
           ELSE /\ data' = swap(data, f.i + 1, f.high)
                /\ frames' =
                       Append(SubSeq(frames, 1, Len(frames) - 2),
                              [fn |-> caller.fn, pc |-> "partitioned",
                               low |-> caller.low, high |-> caller.high,
                               p |-> f.i + 1])
    /\ UNCHANGED <<focus, stackVars, queueVars, input, target, aOp, found>>

\* linearSearch: one test of the for loop, with the body it lets in.
Step_linearSearch ==
    /\ Running("linearSearch")
    /\ LET f == Top
       IN  IF f.i < length(data)
           THEN IF data[f.i].key = target
                THEN /\ frames' = Return
                     /\ found' = <<f.i>>
                ELSE /\ frames' = Goto([f EXCEPT !.i = f.i + 1])
                     /\ found' = found
           ELSE /\ frames' = Return
                /\ found' = <<NotFound>>
    /\ UNCHANGED <<focus, stackVars, queueVars, input, target, aOp, data>>

\* Mutant: left = mid instead of left = mid + 1.
BinaryIteration_keepsMid(a, t, left, right) ==
    IF left <= right
    THEN LET mid == left + (right - left) \div 2
         IN  IF a[mid].key = t
             THEN [left |-> left, right |-> right, ret |-> <<mid>>]
             ELSE IF a[mid].key < t
             THEN [left |-> mid, right |-> right, ret |-> << >>]
             ELSE [left |-> left, right |-> mid - 1, ret |-> << >>]
    ELSE [left |-> left, right |-> right, ret |-> <<NotFound>>]

\* binarySearch: one test of the while loop, with the body it lets in;
\* ret is <<v>> if this returns v.
BinaryIteration(a, t, left, right) ==
    IF left <= right
    THEN LET mid == left + (right - left) \div 2
         IN  IF a[mid].key = t
             THEN [left |-> left, right |-> right, ret |-> <<mid>>]
             ELSE IF a[mid].key < t
             THEN [left |-> mid + 1, right |-> right, ret |-> << >>]
             ELSE [left |-> left, right |-> mid - 1, ret |-> << >>]
    ELSE [left |-> left, right |-> right, ret |-> <<NotFound>>]

Step_binarySearch ==
    /\ Running("binarySearch")
    /\ LET f == Top
           it == BinaryIteration(data, target, f.left, f.right)
       IN  IF it.ret # << >>
           THEN /\ frames' = Return
                /\ found' = it.ret
           ELSE /\ frames' = Goto([f EXCEPT !.left = it.left,
                                            !.right = it.right])
                /\ found' = found
    /\ UNCHANGED <<focus, stackVars, queueVars, input, target, aOp, data>>

\* A call of one of the seven routines, about to run its first statement.
StepInit ==
    /\ focus = "steps"
    /\ StackInit
    /\ QueueInit
    /\ input \in StepInputs
    /\ aOp \in Sorts \cup Searches
    /\ target \in (IF aOp \in Searches THEN Targets ELSE {0})
    /\ data = input
    /\ found = << >>
    /\ frames = <<Enter(aOp, input)>>

StepNext ==
    \/ Step_bubbleSort
    \/ Step_selectionSort
    \/ Step_insertionSort
    \/ Step_mergeSort
    \/ Step_mergeSortRange
    \/ Step_merge
    \/ Step_quickSort
    \/ Step_quickSortRange
    \/ Step_partition
    \/ Step_linearSearch
    \/ Step_binarySearch

\* The routines run on one thread and nothing suspends them: a routine
\* that can take a step takes it.
StepSpec == StepInit /\ [][StepNext]_vars /\ WF_vars(StepNext)

\* ------------------------------------------------------------------------
\* Properties of Stack<T> and Queue<T>
\* ------------------------------------------------------------------------

\* The buffer holds the abstract sequence m in positions [0, Len(m)), the
\* last element at the top.
HoldsInOrder(a, t, m) ==
    /\ Stack_size(t) = Len(m)
    /\ \A i \in 0 .. Len(m) - 1 : i \in DOMAIN a /\ a[i] = m[i + 1]

\* C1 - LIFO law: while the calls on a stack are pushes p1..pn followed by
\* pops, the pops return pn, pn-1, ... in that order, a pop cannot fail
\* before all n values are back, and after n pops the stack is empty.
C1_LIFO ==
    (sState # "none" /\ sState # "failed" /\ sPhase # "mixed") =>
        /\ sState = "live"
        /\ Len(sPopLog) <= Len(sPushLog)
        /\ sPopLog = SubSeq(Reverse(sPushLog), 1, Len(sPopLog))
        /\ Stack_size(topIndex) = Len(sPushLog) - Len(sPopLog)

\* C2 - FIFO law: while the calls on a queue are enqueues e1..en followed
\* by dequeues, the dequeues return e1, e2, ... in that order, a dequeue
\* cannot fail before all n values are back, and after n dequeues the
\* queue is empty.
C2_FIFO ==
    (qState = "live" /\ qPhase # "mixed") =>
        /\ Len(qDeqLog) <= Len(qEnqLog)
        /\ qDeqLog = SubSeq(qEnqLog, 1, Len(qDeqLog))
        /\ Queue_size(count) = Len(qEnqLog) - Len(qDeqLog)
        /\ Queue_isEmpty(frontPtr) <=> Len(qDeqLog) = Len(qEnqLog)

C2_Witness ==
    /\ qPhase = "dequeueing"
    /\ Len(qEnqLog) >= 3
    /\ qEnqLog[1] # qEnqLog[2]
    /\ qDeqLog = qEnqLog

\* C3 - Underflow: pop and peek on a stack of size 0, and dequeue and front
\* on a queue of size 0, throw the underflow error of that function and
\* return nothing, and the call leaves every field of the container as it
\* was (so the container is still empty and the call fails again).
C3_Underflow ==
    [][ /\ (sState = "live" /\ Stack_size(topIndex) = 0 /\ sOp' = "pop") =>
              /\ sErr' = StackPopUnderflow
              /\ sRet' = << >>
              /\ UNCHANGED <<stackFields, sState>>
        /\ (sState = "live" /\ Stack_size(topIndex) = 0 /\ sOp' = "peek") =>
              /\ sErr' = StackPeekUnderflow
              /\ sRet' = << >>
              /\ UNCHANGED <<stackFields, sState>>
        /\ (qState = "live" /\ Queue_size(count) = 0 /\ qOp' = "dequeue") =>
              /\ qErr' = QueueDequeueUnderflow
              /\ qRet' = << >>
              /\ UNCHANGED <<queueFields, qState>>
        /\ (qState = "live" /\ Queue_size(count) = 0 /\ qOp' = "front") =>
              /\ qErr' = QueueFrontUnderflow
              /\ qRet' = << >>
              /\ UNCHANGED <<queueFields, qState>>
      ]_vars

\* A pop that fails on a stack emptied by earlier pushes and pops.
C3_Witness ==
    /\ sOp = "pop"
    /\ sErr = StackPopUnderflow
    /\ Len(sPopLog) >= 2
    /\ capacity > sInitCap
    /\ Stack_size(topIndex) = 0

\* C4 - Growth preserves contents: once more values have been pushed than
\* the initial capacity holds, every value pushed and not yet popped is in
\* the buffer, in push order below the top, so pops return them in LIFO
\* order.
C4_GrowthPreserves ==
    (sState # "none" /\ sState # "failed" /\ Len(sPushLog) > sInitCap) =>
        /\ sState = "live"
        /\ capacity >= Stack_size(topIndex)
        /\ HoldsInOrder(arr, topIndex, sModel)

\* C5 - Stack invariant: for a stack created with capacity >= 1,
\* 0 <= size <= capacity, the buffer has capacity slots, and the elements
\* pushed and not popped occupy [0, size) in push order, the most recent at
\* size - 1.
C5_StackInvariant ==
    (sState # "none" /\ sInitCap >= 1) =>
        /\ sState = "live"
        /\ 0 <= Stack_size(topIndex)
        /\ Stack_size(topIndex) <= capacity
        /\ DOMAIN arr = 0 .. capacity - 1
        /\ HoldsInOrder(arr, topIndex, sModel)
        /\ ~sOOB

C5_Witness ==
    /\ sInitCap >= 1
    /\ capacity > sInitCap
    /\ sPhase = "mixed"
    /\ Len(sModel) >= 2
    /\ sModel[1] # sModel[2]
    /\ sErr = "none"

\* The node reached from p by n next-links; -1 if the walk leaves the live
\* nodes.
RECURSIVE Walk(_, _, _)
Walk(h, p, n) ==
    IF ~LiveNode(h, p) THEN -1
    ELSE IF n = 0 THEN p
    ELSE Walk(h, h[p].next, n - 1)

\* C6 - Queue invariant: front and rear are both null iff count is 0;
\* when count is not 0, rear is the node reached from front by exactly
\* count - 1 next-links and the next-link of rear is null.
C6_QueueInvariant ==
    (qState = "live") =>
        /\ (frontPtr = nullptr /\ rearPtr = nullptr) <=> count = 0
        /\ count >= 0
        /\ count # 0 =>
              /\ Walk(heap, frontPtr, count - 1) = rearPtr
              /\ heap[rearPtr].next = nullptr

C6_Witness ==
    /\ qState = "live"
    /\ qPhase = "mixed"
    /\ count >= 2
    /\ frontPtr > 1
    /\ qOp = "enqueue"

\* C7 - Stack(size) with size < 1 throws and leaves no stack; a stack
\* exists only for size >= 1.  (Any exception is taken for the rejection.)
C7_CreateRejects ==
    (sOp = "Stack") =>
        IF sInitCap < 1
        THEN sState = "failed" /\ sErr # "none"
        ELSE sState = "live" /\ sErr = "none"

\* ------------------------------------------------------------------------
\* Properties of the sorting and searching routines
\* ------------------------------------------------------------------------
SortNames ==
    {"bubbleSort", "selectionSort", "insertionSort", "mergeSort", "quickSort"}

StableSortNames == {"bubbleSort", "insertionSort", "mergeSort"}

\* b holds the elements of a, each as often as a does.
IsPermutation(a, b) ==
    /\ DOMAIN a = DOMAIN b
    /\ \A i \in DOMAIN a :
          Cardinality({j \in DOMAIN a : a[j] = a[i]})
              = Cardinality({j \in DOMAIN b : b[j] = a[i]})
    /\ \A k \in Keys :
          Cardinality({j \in DOMAIN a : a[j].key = k})
              = Cardinality({j \in DOMAIN b : b[j].key = k})

\* a is in non-decreasing order of keys.
IsSorted(a) ==
    \A i, j \in DOMAIN a : i < j => a[i].key <= a[j].key

\* Elements of equal key are in a in the order they had in the input.
IsStable(a) ==
    \A i, j \in DOMAIN a :
        (i < j /\ a[i].key = a[j].key) => a[i].tag < a[j].tag

\* The target occurs in a.
Occurs(a, t) == \E i \in DOMAIN a : a[i].key = t

\* C8 - each of the five sorts leaves a permutation of its input, in
\* non-decreasing order, the empty and the one-element array included.
C8_SortsSort ==
    (aOp \in SortNames) =>
        /\ IsPermutation(input, data)
        /\ IsSorted(data)

C8_Witness ==
    /\ aOp = "quickSort"
    /\ length(input) >= 3
    /\ ~IsSorted(input)
    /\ \E i, j \in DOMAIN input : i # j /\ input[i].key = input[j].key

\* C9 - bubbleSort, insertionSort and mergeSort are stable: elements of
\* equal key come out in the relative order they went in.
C9_Stable ==
    (aOp \in StableSortNames) => IsStable(data)

C9_Witness ==
    /\ aOp = "mergeSort"
    /\ length(input) >= 4
    /\ ~IsSorted(input)
    /\ \E i, j \in DOMAIN input : i # j /\ input[i].key = input[j].key
    /\ data # input

\* The array [2, 4, 6, 8, 10].
ExampleArray == [i \in 0 .. 4 |-> [key |-> 2 * (i + 1), tag |-> i]]

\* C10 - on an array sorted ascending, binarySearch returns an index
\* holding the target when the target occurs, and -1 exactly when it does
\* not occur; on [2,4,6,8,10] it returns 2 for 6 and -1 for 5.
C10_BinarySearch ==
    /\ (aOp = "binarySearch" /\ IsSorted(input)) =>
          /\ Occurs(input, target) =>
                /\ found[1] \in DOMAIN input
                /\ input[found[1]].key = target
          /\ found[1] = NotFound <=> ~Occurs(input, target)
          /\ data = input
    /\ binarySearch(ExampleArray, 6) = 2
    /\ binarySearch(ExampleArray, 5) = NotFound

C10_Witness ==
    /\ aOp = "binarySearch"
    /\ IsSorted(input)
    /\ length(input) >= 4
    /\ found[1] = length(input) - 1
    /\ input[0].key # target

\* C11 - linearSearch returns the smallest index holding the target, or -1
\* if no element equals the target, on sorted and unsorted arrays alike,
\* and leaves the array as it was.
C11_LinearSearch ==
    (aOp = "linearSearch") =>
        /\ Occurs(input, target) =>
              /\ found[1] \in DOMAIN input
              /\ input[found[1]].key = target
              /\ \A j \in DOMAIN input : j < found[1] => input[j].key # target
        /\ ~Occurs(input, target) => found[1] = NotFound
        /\ data = input

C11_Witness ==
    /\ aOp = "linearSearch"
    /\ ~IsSorted(input)
    /\ found[1] >= 1
    /\ \E j \in DOMAIN input : j > found[1] /\ input[j].key = target

\* C12 (as claimed) - on a sorted array that holds the target, linearSearch
\* and binarySearch return the same index, and it holds the target.
C12_SearchesAgree ==
    (aOp = "bothSearches" /\ IsSorted(input) /\ Occurs(input, target)) =>
        /\ found[1] = found[2]
        /\ input[found[1]].key = target

\* C12 (amended) - on a sorted array that holds the target, both searches
\* return an index holding the target, the index of linearSearch is the
\* first such and so not above that of binarySearch, and the two are the
\* same index when the target occurs exactly once.
C12_SearchesAgreeOnUnique ==
    (aOp = "bothSearches" /\ IsSorted(input) /\ Occurs(input, target)) =>
        /\ found[1] \in DOMAIN input /\ input[found[1]].key = target
        /\ found[2] \in DOMAIN input /\ input[found[2]].key = target
        /\ found[1] <= found[2]
        /\ Cardinality({j \in DOMAIN input : input[j].key = target}) = 1
              => found[1] = found[2]

C12_Witness ==
    /\ aOp = "bothSearches"
    /\ IsSorted(input)
    /\ length(input) >= 4
    /\ Cardinality({j \in DOMAIN input : input[j].key = target}) = 1
    /\ found[2] = length(input) - 1

\* The addresses met from p along the next-links, at most n of them.
RECURSIVE ChainFrom(_, _, _)
ChainFrom(h, p, n) ==
    IF n = 0 \/ p \notin 1 .. Len(h) THEN << >>
    ELSE <<p>> \o ChainFrom(h, h[p].next, n - 1)

\* The nodes that are allocated and not deleted.
LiveNodes(h) == {p \in 1 .. Len(h) : LiveNode(h, p)}

\* The state of the heap that C13 asks for.
NodeLifecycle ==
    LET chain == ChainFrom(heap, frontPtr, Len(heap) + 1)
    IN  /\ qState # "crashed"
        /\ ~qBadDeref
        \* deleted at most once, and exactly the addresses handed to delete
        /\ \A p \in 1 .. Len(heap) : heap[p].frees <= 1
        /\ Len(qFreeLog) = Cardinality({p \in 1 .. Len(heap) :
                                            heap[p].frees = 1})
        /\ \A i \in 1 .. Len(qFreeLog) : heap[qFreeLog[i]].frees = 1
        \* front, rear and every link of a live node point at live nodes
        /\ frontPtr = nullptr \/ LiveNode(heap, frontPtr)
        /\ rearPtr = nullptr \/ LiveNode(heap, rearPtr)
        /\ \A p \in LiveNodes(heap) :
              heap[p].next = nullptr \/ LiveNode(heap, heap[p].next)
        \* the chain from front holds every live node, once
        /\ Len(chain) = Cardinality(LiveNodes(heap))
        /\ \A i \in 1 .. Len(chain) : LiveNode(heap, chain[i])
        \* after ~Queue() nothing is left allocated
        /\ qState = "destroyed" =>
              /\ LiveNodes(heap) = {}
              /\ \A p \in 1 .. Len(heap) : heap[p].frees = 1
              /\ frontPtr = nullptr /\ rearPtr = nullptr

\* C13 - node lifecycle: every node is deleted at most once, by the
\* dequeue that removes it (which deletes the front node and nothing else)
\* or by the destructor; no deleted node is dereferenced, linked to or
\* pointed at by front or rear; the destructor deletes the remaining nodes
\* in front-to-rear order; after it no node is left allocated.
C13_NodeLifecycle ==
    [][ /\ NodeLifecycle'
        /\ (qOp' = "dequeue" /\ qErr' = "none") =>
              qFreeLog' = Append(qFreeLog, frontPtr)
        /\ (qOp' = "~Queue") =>
              qFreeLog' = qFreeLog \o ChainFrom(heap, frontPtr, Len(heap))
      ]_vars

\* A queue destroyed with at least two nodes left, after a dequeue.
C13_Witness ==
    /\ qState = "destroyed"
    /\ Len(heap) >= 3
    /\ Len(qDeqLog) >= 1
    /\ Len(qFreeLog) - Len(qDeqLog) >= 2
    /\ qPhase = "mixed"

StackObservers == {"peek", "isEmpty", "size"}

QueueObservers == {"front", "isEmpty", "size"}

\* C14 - observers do not mutate: a peek, isEmpty or size on a stack, and
\* a front, isEmpty or size on a queue, that returns a result leaves the
\* buffer, size and capacity (the chain, front, rear and count) as they
\* were, and the same observer called again returns the same result.
C14_ObserversDoNotMutate ==
    [][ /\ (sOp' \in StackObservers /\ sErr' = "none" /\ sState' = "live") =>
              /\ UNCHANGED <<stackFields, stackHist>>
              /\ (sOp = sOp' /\ sErr = "none") => sRet' = sRet
        /\ (qOp' \in QueueObservers /\ qErr' = "none" /\ qState' = "live") =>
              /\ UNCHANGED <<queueFields, queueHist>>
              /\ (qOp = qOp' /\ qErr = "none") => qRet' = qRet
      ]_vars

\* C15 - the stack refines the abstract sequence under any interleaving of
\* pushes and pops: size() is the number of pushes minus the number of
\* pops that returned, peek() returns the most recently pushed element not
\* yet popped, and a pop that returns gives that same element.
C15_StackRefinesSequence ==
    [][ /\ sState' = "live" =>
              Stack_size(topIndex') = Len(sPushLog') - Len(sPopLog')
        /\ (sOp' = "size" /\ sState' = "live") =>
              sRet' = <<Len(sPushLog) - Len(sPopLog)>>
        /\ (sOp' = "peek" /\ sErr' = "none") =>
              /\ sState' = "live"
              /\ sModel # << >>
              /\ sRet' = <<sModel[Len(sModel)]>>
        /\ (sOp' = "pop" /\ sErr' = "none") =>
              /\ sState' = "live"
              /\ sModel # << >>
              /\ sRet' = <<sModel[Len(sModel)]>>
      ]_vars

\* C16 - the queue refines the abstract FIFO sequence under any
\* interleaving of enqueues and dequeues: size() is the number of enqueues
\* minus the number of dequeues that returned, isEmpty() holds iff size()
\* is 0, front() returns the oldest element not yet dequeued, a dequeue
\* that returns gives that same element, and front and dequeue fail only
\* on the empty sequence.
C16_QueueRefinesSequence ==
    [][ /\ qState' = "live" =>
              /\ Queue_size(count') = Len(qEnqLog') - Len(qDeqLog')
              /\ Queue_isEmpty(frontPtr') <=> Queue_size(count') = 0
        /\ (qOp' = "size" /\ qState' = "live") =>
              qRet' = <<Len(qEnqLog) - Len(qDeqLog)>>
        /\ (qOp' = "isEmpty" /\ qState' = "live") =>
              qRet' = <<Len(qEnqLog) = Len(qDeqLog)>>
        /\ (qOp' \in {"front", "dequeue"}) =>
              IF qModel = << >>
              THEN qErr' # "none" /\ qRet' = << >>
              ELSE qErr' = "none" /\ qState' = "live"
                   /\ qRet' = <<qModel[1]>>
      ]_vars

\* An enqueue into a queue that earlier dequeues had drained.
C16_Witness ==
    /\ qOp = "enqueue"
    /\ qState = "live"
    /\ count = 1
    /\ Len(qDeqLog) >= 2
    /\ qDeqLog[1] # qDeqLog[2]

RECURSIVE Pow2(_)
Pow2(k) == IF k = 0 THEN 1 ELSE 2 * Pow2(k - 1)

\* C17 - doubling growth: a push made at size = capacity is a growth step
\* and sets capacity to exactly twice what it was, a push made at
\* size < capacity leaves capacity alone, pop and peek never change it; so
\* capacity never decreases and is the initial capacity times 2^k after k
\* growth steps.
C17_DoublingGrowth ==
    [][ /\ (sOp' = "push" /\ Stack_size(topIndex) = capacity) =>
              /\ capacity' = 2 * capacity
              /\ sGrowths' = sGrowths + 1
        /\ (sOp' = "push" /\ Stack_size(topIndex) < capacity) =>
              /\ capacity' = capacity
              /\ sGrowths' = sGrowths
        /\ (sOp' \in {"pop", "peek"}) => capacity' = capacity
        /\ sState # "none" => capacity' >= capacity
        /\ sState' # "failed" =>
              /\ capacity' = sInitCap' * Pow2(sGrowths')
              /\ DOMAIN arr' = 0 .. capacity' - 1
      ]_vars

\* A stack that has grown twice and is more than half full.
C17_Witness ==
    /\ sOp = "push"
    /\ sInitCap >= 1
    /\ sGrowths >= 2
    /\ Stack_size(topIndex) >= 2
    /\ Stack_size(topIndex) > capacity \div 2

\* What C18 says of every pass, and of the stop, of bubbleSort on `input`:
\* the passes end in `data`; after the k-th pass the last k positions hold
\* the k largest elements, where they finally are; every pass but the last
\* swaps, and a last pass that swaps is pass length - 1; the result is
\* sorted.
BubblePassStructure(passes) ==
    LET n == length(input)
    IN  /\ data = IF passes = << >> THEN input ELSE passes[Len(passes)].arr
        /\ Len(passes) <= n - 1 \/ passes = << >>
        /\ \A k \in 1 .. Len(passes) :
              /\ \A j \in n - k .. n - 1 : passes[k].arr[j] = data[j]
              /\ \A j \in n - k .. n - 1 : \A m \in 0 .. n - k - 1 :
                    passes[k].arr[m].key <= passes[k].arr[j].key
              /\ k < Len(passes) => passes[k].swapped
        /\ (passes # << >> /\ passes[Len(passes)].swapped) =>
              Len(passes) = n - 1
        /\ IsSorted(data)

\* C18 (as claimed) - the pass structure, and an already-sorted input is
\* handled in exactly one pass.
C18_BubblePasses ==
    (aOp = "bubbleSort") =>
        LET passes == BubblePasses(input, 0)
        IN  /\ BubblePassStructure(passes)
            /\ IsSorted(input) => Len(passes) = 1

\* C18 (amended) - the pass structure, and an already-sorted input of two
\* or more elements is handled in exactly one pass, without a swap; an
\* input of fewer than two elements takes no pass at all.
C18_BubblePassesFromTwo ==
    (aOp = "bubbleSort") =>
        LET passes == BubblePasses(input, 0)
        IN  /\ BubblePassStructure(passes)
            /\ (IsSorted(input) /\ length(input) >= 2) =>
                  Len(passes) = 1 /\ ~passes[1].swapped
            /\ length(input) < 2 => passes = << >>

\* A sort of three passes that stops early, on the pass without a swap.
C18_Witness ==
    /\ aOp = "bubbleSort"
    /\ Len(BubblePasses(input, 0)) = 3
    /\ ~BubblePasses(input, 0)[3].swapped
    /\ length(input) >= 4

\* C19 - partition(arr, low, high) with low < high takes the element that
\* was at high as pivot and returns p in low..high with arr[p] the pivot,
\* arr[low..p-1] <= pivot, arr[p+1..high] > pivot, arr[low..high] a
\* permutation of what it was, and the rest of the array unchanged.
C19_Partition ==
    (aOp = "partition") =>
        LET p == found[1]
            low == found[2]
            high == found[3]
            pivot == input[high]
        IN  /\ low <= p /\ p <= high
            /\ DOMAIN data = DOMAIN input
            /\ data[p] = pivot
            /\ \A j \in low .. p - 1 : data[j].key <= pivot.key
            /\ \A j \in p + 1 .. high : data[j].key > pivot.key
            /\ {data[j] : j \in low .. high} = {input[j] : j \in low .. high}
            /\ \A k \in Keys :
                  Cardinality({j \in low .. high : data[j].key = k})
                      = Cardinality({j \in low .. high : input[j].key = k})
            /\ \A j \in DOMAIN input \ (low .. high) : data[j] = input[j]

\* A partition of an inner range of three or more elements that moves
\* elements and puts the pivot strictly inside.
C19_Witness ==
    /\ aOp = "partition"
    /\ found[2] >= 1
    /\ found[3] - found[2] >= 2
    /\ found[2] < found[1] /\ found[1] < found[3]
    /\ data # input
    /\ \E j \in found[2] .. found[3] - 1 : input[j].key = input[found[3]].key

\* C20 - Termination: every call of the five sorts and the two searches
\* returns, on every array; every recursive call of mergeSort(arr, left,
\* right) and of quickSort(arr, low, high) is on a strictly smaller range
\* than its caller's, and every iteration of the binarySearch loop that
\* does not return strictly shrinks [left, right], sorted input or not.
Returned == frames = << >>

RecursionShrinks ==
    (frames # << >> /\ Len(frames') = Len(frames) + 1) =>
        LET caller == frames[Len(frames)]
            callee == frames'[Len(frames')]
        IN  /\ (caller.fn = "mergeSortRange" /\ callee.fn = "mergeSortRange")
                  => /\ callee.right - callee.left
                            < caller.right - caller.left
                     /\ callee.left <= callee.right
            /\ (caller.fn = "quickSortRange" /\ callee.fn = "quickSortRange")
                  => /\ callee.high - callee.low < caller.high - caller.low
                     /\ callee.low <= callee.high + 1

BinaryShrinks ==
    (frames # << >> /\ frames' # << >> /\ Top.fn = "binarySearch") =>
        Top'.right - Top'.left < Top.right - Top.left

C20_Termination ==
    /\ <>Returned
    /\ [][RecursionShrinks /\ BinaryShrinks]_vars

\* binarySearch has returned from an array that is not sorted, having
\* missed a target that is there.
C20_Witness ==
    /\ focus = "steps"
    /\ Returned
    /\ aOp = "binarySearch"
    /\ ~IsSorted(input)
    /\ found = <<NotFound>>
    /\ \E i \in DOMAIN input : input[i].key = target

\* C21 - Buffer bounds: for every initial capacity with which the
\* constructor completes, 0 included, and after any sequence of push and
\* pop calls, no access has been outside the allocated buffer: push wrote
\* and resize copied inside [0, capacity), and pop and peek read only
\* index topIndex with 0 <= topIndex < capacity.
C21_BufferBounds ==
    (sState \in {"live", "crashed"}) =>
        /\ ~sOOB
        /\ DOMAIN arr = 0 .. capacity - 1
        /\ -1 <= topIndex
        /\ topIndex < capacity

\* C22 - binarySearch without its precondition: on every array, sorted or
\* not, the index it reads is inside [0, length - 1], the array is left as
\* it was, and a result other than -1 is an index holding the target; on a
\* sorted array a target that is there is found.
C22_BinarySearchSound ==
    (focus = "steps" /\ aOp = "binarySearch") =>
        /\ data = input
        /\ ~Returned =>
              /\ 0 <= Top.left
              /\ Top.right <= length(data) - 1
              /\ (Top.left <= Top.right) =>
                    (Top.left + (Top.right - Top.left) \div 2) \in DOMAIN data
        /\ Returned =>
              /\ Len(found) = 1
              /\ \/ found[1] = NotFound
                 \/ /\ found[1] \in DOMAIN input
                    /\ input[found[1]].key = target
              /\ (IsSorted(input)
                    /\ \E i \in DOMAIN input : input[i].key = target)
                    => found[1] # NotFound

\* binarySearch has returned an index from an array that is not sorted.
C22_Witness ==
    /\ focus = "steps"
    /\ Returned
    /\ aOp = "binarySearch"
    /\ ~IsSorted(input)
    /\ length(input) >= 3
    /\ found # <<NotFound>>
    /\ found[1] # (length(input) - 1) \div 2

====
